---- MODULE Spec2Model ----
(***************************************************************************)
(* Model of the badger-backed blob store (package badger): the key codec,  *)
(* the blob writer and reader, and the BlobStore operations, as one state  *)
(* machine over the contents of the key-value engine.                       *)
(*                                                                         *)
(* Byte strings are sequences of naturals below 256.  The engine is the    *)
(* ordered map db from key to value; a transaction (db.Update / db.View)   *)
(* runs to completion in one step, which is what the engine's isolation    *)
(* gives to sequential callers.                                            *)
(***************************************************************************)
EXTENDS Integers, Sequences, FiniteSets, TLC

VARIABLES
    db,          \* the engine: key (byte string) -> value (byte string)
    namespaces,  \* BlobStore.namespaces: the in-memory registry
    w,           \* the writer the caller holds (writer struct), or NoWriter
    now,         \* time.Now(), in whole Unix seconds
    ret,         \* the last call and what it returned: [op, arg, err, keys, n]
    calls,       \* the Create calls in progress: caller -> [pc, ref, seen]
    reader       \* the reader the caller holds (reader struct), or NoReader

vars == <<db, namespaces, w, now, ret, calls, reader>>

----------------------------------------------------------------------------
(* Bounds of the model.                                                    *)

\* capacity of the staging buffer, make([]byte, 5000000) in NewWriter
BufCap == 2
\* the clock stops advancing here
MaxTime == 2
\* the most records earlier sessions left in the directory a store opens
MaxRecords == 3
\* Commit is not offered once the engine holds this many records
MaxCommitted == 2

\* iterator read-ahead of the engine: an IteratorOptions literal without
\* PrefetchSize/PrefetchValues reads 2 items ahead, DefaultIteratorOptions 100
PrefetchLiteral == 2
PrefetchDefault == 100

----------------------------------------------------------------------------
(* Byte strings.                                                           *)

Min(S) == CHOOSE x \in S : \A y \in S : x <= y
Max(S) == CHOOSE x \in S : \A y \in S : y <= x

Take(s, n) == SubSeq(s, 1, IF n < Len(s) THEN n ELSE Len(s))
Drop(s, n) == SubSeq(s, n + 1, Len(s))

HasPrefix(k, p) == Len(k) >= Len(p) /\ SubSeq(k, 1, Len(p)) = p

\* bytes.Compare(a, b) <= 0: the engine's key order
LessEq(a, b) ==
    LET n == IF Len(a) < Len(b) THEN Len(a) ELSE Len(b)
    IN  IF \E i \in 1..n : a[i] # b[i]
        THEN LET f == CHOOSE i \in 1..n :
                          a[i] # b[i] /\ \A j \in 1..(i - 1) : a[j] = b[j]
             IN  a[f] < b[f]
        ELSE Len(a) <= Len(b)

\* the keys of S in the engine's order (the keys are distinct); the pivot is
\* a key in the middle half of the order
RECURSIVE SortKeys(_)
SortKeys(S) ==
    IF S = {} THEN <<>>
    ELSE LET n == Cardinality(S)
             p == CHOOSE x \in S :
                      LET r == Cardinality({y \in S : LessEq(y, x)})
                      IN  4 * r > n /\ 4 * r <= 3 * n + 3
         IN  SortKeys({y \in S : y # p /\ LessEq(y, p)}) \o <<p>>
                 \o SortKeys({y \in S : ~LessEq(y, p)})

Range(s) == {s[i] : i \in 1..Len(s)}

----------------------------------------------------------------------------
(* Key codec.                                                              *)

namespacePrefix == <<110, 109, 115, 112, 99>>   \* "nmspc"
blobPrefix      == <<98, 108, 111, 98, 115>>    \* "blobs"
trashPrefix     == <<116, 114, 97, 115, 104>>   \* "trash"

\* binary.BigEndian.AppendUint64 of n, for 0 <= n < 2^31 (the four high
\* bytes of such a value are zero)
BE8(n) == [i \in 1..8 |-> IF i <= 4 THEN 0 ELSE (n \div (256 ^ (8 - i))) % 256]

\* binary.BigEndian.Uint64 of 8 bytes whose four high bytes are zero
U64(b) == b[5] * 16777216 + b[6] * 65536 + b[7] * 256 + b[8]

key(ref, time, size) ==
    blobPrefix \o ref.Namespace \o ref.Key \o BE8(time) \o BE8(size)

\* a stat that reads only the last byte of each number
stat_Low(from) == [time |-> from[Len(from) - 8], size |-> from[Len(from)]]

stat(from) ==
    LET k == SubSeq(from, Len(from) - 15, Len(from))
    IN  [time |-> U64(SubSeq(k, 1, 8)), size |-> U64(SubSeq(k, 9, 16))]

keyPrefix(ref) == blobPrefix \o ref.Namespace \o ref.Key

trashKey(ref) == trashPrefix \o ref.Namespace \o ref.Key

----------------------------------------------------------------------------
(* The engine.                                                             *)

EmptyDB == [k \in {} |-> <<>>]

\* the state after a committed transaction that deleted the keys dels and
\* then set the entries of sets (a function from key to value)
Apply(d, dels, sets) ==
    [k \in (DOMAIN d \ dels) \cup DOMAIN sets |->
        IF k \in DOMAIN sets THEN sets[k] ELSE d[k]]

Put(d, k, v) == Apply(d, {}, [x \in {k} |-> v])

\* what an iterator positioned by Seek(seek) runs over, in key order; opt is
\* IteratorOptions.Prefix (empty when the options name none)
Scan(d, seek, opt) ==
    SortKeys({k \in DOMAIN d : LessEq(seek, k) /\ HasPrefix(k, opt)})

\* the number of items the loop  for it.Seek(p); it.ValidForPrefix(p); it.Next()
\* visits
LoopLen(scan, p) ==
    IF \A i \in 1..Len(scan) : HasPrefix(scan[i], p) THEN Len(scan)
    ELSE Min({i \in 1..Len(scan) : ~HasPrefix(scan[i], p)}) - 1

(* it.Item().Key() and the slice Item.Value hands to its callback belong to *)
(* the iterator item: they are valid until it.Next(), after which the item  *)
(* and its buffers are reused for the entry read ahead distance places      *)
(* later.  A slice kept past that point (txn.Set and txn.Delete keep their  *)
(* arguments until the transaction commits) then shows whatever the buffer  *)
(* holds at commit.  d[j] is what item j put in its buffer, last the last   *)
(* item filled, fits[j] whether a string longer than everything the buffer  *)
(* held before still fits its capacity (the allocator rounds capacities up).*)
RECURSIVE InPlace(_, _, _, _), Extent(_, _, _, _), Content(_, _, _, _)
InPlace(d, distance, fits, j) ==
    /\ j > distance
    /\ (Len(d[j]) <= Extent(d, distance, fits, j - distance) \/ fits[j])

Extent(d, distance, fits, j) ==
    IF InPlace(d, distance, fits, j)
    THEN Max({Len(d[j]), Extent(d, distance, fits, j - distance)})
    ELSE Len(d[j])

Content(d, distance, fits, j) ==
    IF InPlace(d, distance, fits, j)
    THEN d[j] \o Drop(Content(d, distance, fits, j - distance), Len(d[j]))
    ELSE d[j]

RECURSIVE FinalArr(_, _, _, _, _)
FinalArr(d, distance, fits, j, last) ==
    IF j + distance <= last /\ InPlace(d, distance, fits, j + distance)
    THEN FinalArr(d, distance, fits, j + distance, last)
    ELSE Content(d, distance, fits, j)

\* what the slice taken from item i shows when the transaction commits
Kept(d, distance, fits, i, last) ==
    Take(FinalArr(d, distance, fits, i, last), Len(d[i]))

\* KeyCopy(nil), ValueCopy: a private copy, untouched by the iterator
Copied(d, i) == d[i]

\* the choices of fits for the items of a scan that reuse a buffer
Fits(last, distance) == [(distance + 1)..last -> BOOLEAN]
NoFit(last, distance) == [j \in (distance + 1)..last |-> FALSE]

----------------------------------------------------------------------------
(* Blob references and results.                                            *)

Ref(ns, k) == [Namespace |-> ns, Key |-> k]

NoError == "nil"
\* a run-time panic (slice bounds out of range), seen by the caller
Panic == "panic"
NoRef == Ref(<<>>, <<>>)

\* what the last call was and what it returned: op and arg name the call
\* (arg a BlobRef, or a namespace as a BlobRef with an empty key), err and
\* keys are what it returned, n counts the records it visited
Result(op, arg, err, keys, n) ==
    [op |-> op, arg |-> arg, err |-> err, keys |-> keys, n |-> n]

----------------------------------------------------------------------------
(* Blob writer.                                                            *)

\* w.buffer == nil
NilBuf == <<-1>>

\* the highest value the model lets the reader's cursor take
MaxCursor == 4

\* no reader: the caller has opened no blob
NoReader == [offset |-> 0, length |-> 0, buffer |-> NilBuf]

NoWriter ==
    [made |-> FALSE, ref |-> NoRef, offset |-> 0, length |-> 0,
     buffer |-> NilBuf, data |-> <<>>, seeked |-> FALSE, cover |-> <<>>]

\* data, seeked and cover record the calls made on the writer (the bytes
\* passed to Write so far, in order, whether Seek was called, and for each
\* position of the buffer the byte of the last Write that covered it, -1 if
\* none did); the code keeps ref, offset, length and buffer
NewWriter(ref) ==
    [made |-> TRUE, ref |-> ref, offset |-> 0, length |-> 0,
     buffer |-> [i \in 1..BufCap |-> 0], data |-> <<>>, seeked |-> FALSE,
     cover |-> [i \in 1..BufCap |-> -1]]

\* cap(w.buffer)
Cap(buffer) == IF buffer = NilBuf THEN 0 ELSE Len(buffer)

\* w.buffer[w.offset:len(p)+w.offset] is out of range
writePanics(wr, p) == Len(p) + wr.offset > Cap(wr.buffer)

writerWrite(wr, p) ==
    LET i   == Len(p)
        off == wr.offset + i
    IN  [wr EXCEPT
            !.buffer = [j \in 1..Len(wr.buffer) |->
                          IF wr.offset < j /\ j <= wr.offset + i
                          THEN p[j - wr.offset] ELSE wr.buffer[j]],
            !.offset = off,
            !.length = IF off > wr.length THEN off ELSE wr.length]

writerSeek(wr, offset) ==
    [wr EXCEPT !.offset = offset,
               !.length = IF offset > wr.length THEN offset ELSE wr.length]

writerCancel(wr) == [wr EXCEPT !.buffer = NilBuf]

\* a key that encodes the highest offset reached instead of the cursor
commitKey_Length(wr, time) == key(wr.ref, time, wr.length)

\* the entry Commit sets: key(w.ref, time.Now(), w.offset), w.buffer[:w.offset]
commitKey(wr, time) == key(wr.ref, time, wr.offset)

commitValue(wr) == Take(wr.buffer, wr.offset)

\* a Commit without the test of w.buffer
writerCommit_Unchecked(wr, d, time) ==
    [err |-> NoError,
     db  |-> Put(d, key(wr.ref, time, wr.offset), <<>>),
     w   |-> [wr EXCEPT !.buffer = NilBuf]]

\* Commit: [err, db, w] after the call; w.buffer[:w.offset] is out of range
\* when Seek moved the offset past the capacity
writerCommit(wr, d, time) ==
    IF wr.buffer = NilBuf
    THEN [err |-> "Already committed", db |-> d, w |-> wr]
    ELSE IF wr.offset > Cap(wr.buffer)
    THEN [err |-> Panic, db |-> d, w |-> wr]
    ELSE [err |-> NoError,
          db  |-> Put(d, commitKey(wr, time), commitValue(wr)),
          w   |-> [wr EXCEPT !.buffer = NilBuf]]

----------------------------------------------------------------------------
(* Blob reader.                                                            *)

\* a NewReader that keeps the last record under keyPrefix(ref)
NewReader_Last(d, ref) ==
    LET pref == keyPrefix(ref)
        scan == Scan(d, pref, pref)
    IN  IF Len(scan) = 0
        THEN [err |-> "missing blob", offset |-> 0, length |-> 0, buffer |-> <<>>]
        ELSE [err |-> NoError, offset |-> 0,
              length |-> Len(d[scan[Len(scan)]]), buffer |-> d[scan[Len(scan)]]]

\* NewReader: the value of the first record under keyPrefix(ref)
NewReader(d, ref) ==
    LET pref == keyPrefix(ref)
        scan == Scan(d, pref, pref)
    IN  IF Len(scan) = 0
        THEN [err |-> "missing blob", offset |-> 0, length |-> 0, buffer |-> <<>>]
        ELSE [err |-> NoError, offset |-> 0,
              length |-> Len(d[Copied(scan, 1)]), buffer |-> d[Copied(scan, 1)]]

\* Read into a slice of n bytes: [n, eof, p, r]
readerRead(r, n) ==
    IF r.offset >= r.length
    THEN [n |-> 0, eof |-> TRUE, p |-> <<>>, r |-> r]
    ELSE LET c == Take(Drop(r.buffer, r.offset), n)
         IN  [n |-> Len(c), eof |-> FALSE, p |-> c,
              r |-> [r EXCEPT !.offset = r.offset + Len(c)]]

\* reader.Size
readerSize(r) == Len(r.buffer)

\* ReadAt into a slice of n bytes at off: [n, err, p, r]; r.buffer[off:] is
\* out of range when off is past the end of the buffer
readerReadAt(r, n, off) ==
    IF off > Len(r.buffer)
    THEN [n |-> 0, err |-> Panic, p |-> <<>>, r |-> r]
    ELSE LET c == Take(Drop(r.buffer, off), n)
         IN  [n |-> Len(c), err |-> NoError, p |-> c,
              r |-> [r EXCEPT !.offset = r.offset + Len(c)]]

\* io.ReadAll / rall: Read into chunk free bytes until end-of-stream
RECURSIVE ReadAll(_, _)
ReadAll(r, chunk) ==
    LET got == readerRead(r, chunk)
    IN  IF got.eof THEN <<>> ELSE got.p \o ReadAll(got.r, chunk)

----------------------------------------------------------------------------
(* Blob store.                                                             *)

\* the partitions of the engine's key space
BlobKeys(d)   == {k \in DOMAIN d : HasPrefix(k, blobPrefix)}
TrashKeys(d)  == {k \in DOMAIN d : HasPrefix(k, trashPrefix)}
MarkerKeys(d) == {k \in DOMAIN d : HasPrefix(k, namespacePrefix)}
Part(d, K)    == [k \in K |-> d[k]]

\* the callers that may run Create at the same time
NumCallers == 2
Callers == 1..NumCallers

\* a caller outside Create
Idle == [pc |-> "idle", ref |-> NoRef, seen |-> <<>>]
NoCalls == [c \in Callers |-> Idle]

\* a membership check that never finds the namespace
registered_Never(nss, namespace) == FALSE

\* the loop of ensureNamespace over b.namespaces with bytesEq
registered(nss, namespace) == \E i \in 1..Len(nss) : nss[i] = namespace

\* an ensureNamespace that also stores an empty blob under ref
ensureNamespace_Visible(d, nss, ref) ==
    [db |-> Put(Put(d, namespacePrefix \o ref.Namespace, <<1>>), key(ref, 0, 0), <<>>),
     namespaces |-> IF \E i \in 1..Len(nss) : nss[i] = ref.Namespace
                    THEN nss ELSE Append(nss, ref.Namespace)]

\* an ensureNamespace that does not look the namespace up
ensureNamespace_Append(d, nss, ref) ==
    [db |-> Put(d, namespacePrefix \o ref.Namespace, <<1>>),
     namespaces |-> Append(nss, ref.Namespace)]

\* ensureNamespace: [db, namespaces] after the call
ensureNamespace(d, nss, ref) ==
    IF \E i \in 1..Len(nss) : nss[i] = ref.Namespace
    THEN [db |-> d, namespaces |-> nss]
    ELSE [db |-> Put(d, namespacePrefix \o ref.Namespace, <<1>>),
          namespaces |-> Append(nss, ref.Namespace)]

\* NewBlobStore: the registry read from the markers (Key() slices, kept)
loadNamespaces(d, fits) ==
    LET scan == Scan(d, namespacePrefix, <<>>)
        n    == LoopLen(scan, namespacePrefix)
        last == Min({Len(scan), n + PrefetchDefault})
    IN  [i \in 1..n |->
            Drop(Kept(scan, PrefetchDefault, fits, i, last), Len(namespacePrefix))]

\* Delete: every record under keyPrefix(ref), by KeyCopy
storeDelete(d, ref) ==
    LET pref == keyPrefix(ref)
        scan == Scan(d, pref, pref)
    IN  Apply(d, {Copied(scan, i) : i \in 1..Len(scan)}, EmptyDB)

\* DeleteNamespace: the markers under namespacePrefix + ref, by Key()
storeDeleteNamespace(d, ref, fits) ==
    LET ns   == namespacePrefix \o ref
        scan == Scan(d, ns, <<>>)
        n    == LoopLen(scan, ns)
        last == Min({Len(scan), n + PrefetchDefault})
    IN  Apply(d, {Kept(scan, PrefetchDefault, fits, i, last) : i \in 1..n}, EmptyDB)

\* Trash: for each record under keyPrefix(ref), txn.Set(trash key, val) with
\* the trash key a fresh slice built in the loop and val the item's value
\* slice, then txn.Delete(key) with key the item's key slice
storeTrash(d, ref, fits) ==
    LET pref == keyPrefix(ref)
        scan == Scan(d, pref, pref)
        n    == Len(scan)
        vals == [i \in 1..n |-> d[scan[i]]]
        to   == [i \in 1..n |-> trashPrefix \o Drop(scan[i], 5)]
        dels == {Kept(scan, PrefetchLiteral, fits, i, n) : i \in 1..n}
        sets == [k \in {to[i] : i \in 1..n} |->
                    LET i == CHOOSE j \in 1..n : to[j] = k
                    IN  Kept(vals, PrefetchLiteral, NoFit(n, PrefetchLiteral), i, n)]
    IN  Apply(d, dels, sets)

\* move, for each record of the trash partition: txn.Get(from), txn.Set(to,
\* val) with val the value of the item txn.Get returned, txn.Delete(from)
\* with from the iterator item's key slice.  [db, keys]
storeRestoreTrash(d, fits) ==
    LET scan == Scan(d, trashPrefix, <<>>)
        n    == LoopLen(scan, trashPrefix)
        last == Min({Len(scan), n + PrefetchDefault})
        to   == [i \in 1..n |-> blobPrefix \o Drop(scan[i], Len(trashPrefix))]
        dels == {Kept(scan, PrefetchDefault, fits, i, last) : i \in 1..n}
        sets == [k \in {to[i] : i \in 1..n} |->
                    d[scan[CHOOSE j \in 1..n : to[j] = k]]]
    IN  [db   |-> Apply(d, dels, sets),
         keys |-> [i \in 1..n |-> Kept(scan, PrefetchDefault, fits, i, last)]]

\* EmptyTrash runs in db.View, a read-only transaction, in which txn.Delete
\* returns the engine's ErrReadOnlyTxn: the loop ends at the first record.
\* [db, err, keys]
storeEmptyTrash(d) ==
    LET scan == Scan(d, trashPrefix, <<>>)
        n    == LoopLen(scan, trashPrefix)
    IN  IF n = 0
        THEN [db |-> d, err |-> NoError, keys |-> <<>>]
        ELSE [db |-> d, err |-> "read-only transaction", keys |-> <<scan[1]>>]

\* a transaction that committed although its function returned an error
Discard_Partial(d, pending) == pending

\* db.Update(fn) when fn returns an error: the transaction is discarded and
\* none of its pending writes and deletes reaches the store
Discard(d, pending) == d

(* The engine can refuse a txn.Set or a txn.Delete (the transaction grew    *)
(* too large, the store is closing, the key is not acceptable).  failAt is  *)
(* the number of the call, among the Set and Delete calls of the operation, *)
(* that returns the error; 0 when none does.  [db, err]                     *)
storeDeleteFailing(d, ref, failAt) ==
    LET pref == keyPrefix(ref)
        scan == Scan(d, pref, pref)
    IN  IF failAt = 0
        THEN [db |-> storeDelete(d, ref), err |-> NoError]
        ELSE [db |-> Discard(d, Apply(d, {Copied(scan, i) : i \in 1..(failAt - 1)},
                                      EmptyDB)),
              err |-> "engine error"]

\* Trash calls txn.Set and then txn.Delete for each record
storeTrashFailing(d, ref, fits, failAt) ==
    LET pref == keyPrefix(ref)
        scan == Scan(d, pref, pref)
        n    == Len(scan)
        last == Min({n, (failAt + 1) \div 2 + PrefetchLiteral})
        nset == failAt \div 2
        ndel == (failAt - 1) \div 2
        vals == [i \in 1..n |-> d[scan[i]]]
        to   == [i \in 1..n |-> trashPrefix \o Drop(scan[i], 5)]
        dels == {Kept(scan, PrefetchLiteral, fits, i, last) : i \in 1..ndel}
        sets == [k \in {to[i] : i \in 1..nset} |->
                    LET i == CHOOSE j \in 1..nset : to[j] = k
                    IN  Kept(vals, PrefetchLiteral, NoFit(n, PrefetchLiteral), i, last)]
    IN  IF failAt = 0
        THEN [db |-> storeTrash(d, ref, fits), err |-> NoError]
        ELSE [db |-> Discard(d, Apply(d, dels, sets)), err |-> "engine error"]

\* move calls txn.Set and then txn.Delete for each record.  [db, err, keys]
storeRestoreTrashFailing(d, fits, failAt) ==
    LET scan == Scan(d, trashPrefix, <<>>)
        n    == LoopLen(scan, trashPrefix)
        m    == (failAt + 1) \div 2
        last == Min({Len(scan), m + PrefetchDefault})
        nset == failAt \div 2
        ndel == (failAt - 1) \div 2
        to   == [i \in 1..n |-> blobPrefix \o Drop(scan[i], Len(trashPrefix))]
        dels == {Kept(scan, PrefetchDefault, fits, i, last) : i \in 1..ndel}
        sets == [k \in {to[i] : i \in 1..nset} |->
                    d[scan[CHOOSE j \in 1..nset : to[j] = k]]]
    IN  IF failAt = 0
        THEN LET r == storeRestoreTrash(d, fits)
             IN  [db |-> r.db, err |-> NoError, keys |-> r.keys]
        ELSE [db |-> Discard(d, Apply(d, dels, sets)), err |-> "engine error",
              keys |-> [i \in 1..m |-> Kept(scan, PrefetchDefault, fits, i, last)]]

\* BlobInfo{}: what Stat returns
EmptyInfo == [ref |-> NoRef, size |-> 0, name |-> <<>>, modTime |-> 0]

\* Stat: the loop body is empty, info is never filled and err is the
\* transaction's.  [info, err]
storeStat(d, ref) == [info |-> EmptyInfo, err |-> NoError]

\* s += item.ValueSize() over the items lo..hi of a scan
RECURSIVE SumSizes(_, _, _, _)
SumSizes(d, scan, lo, hi) ==
    IF lo > hi THEN 0
    ELSE IF lo = hi THEN Len(d[scan[lo]])
    ELSE LET mid == (lo + hi) \div 2
         IN  SumSizes(d, scan, lo, mid) + SumSizes(d, scan, mid + 1, hi)

\* the loop of the three SpaceUsed calls over the keys that start with p
spaceUsed(d, p) ==
    LET scan == Scan(d, p, <<>>)
    IN  SumSizes(d, scan, 1, LoopLen(scan, p))

storeSpaceUsedForTrash(d) == spaceUsed(d, trashPrefix)

\* scans namespacePrefix
storeSpaceUsedForBlobs(d) == spaceUsed(d, namespacePrefix)

\* scans namespacePrefix + namespace
storeSpaceUsedForBlobsInNamespace(d, namespace) ==
    spaceUsed(d, namespacePrefix \o namespace)

\* ns(namespace)
ns(namespace) == blobPrefix \o namespace

\* the BlobInfo WalkNamespace builds from a key (a KeyCopy)
walkInfo(namespace, k) ==
    LET blobKey == SubSeq(k, Len(ns(namespace)) + 1, Len(k) - 16)
    IN  [ref |-> Ref(namespace, blobKey), size |-> stat(k).size,
         name |-> blobKey, modTime |-> stat(k).time]

\* a walk that goes on after walkFunc returned an error
storeWalkNamespace_Continue(d, namespace, failAt) ==
    LET scan == Scan(d, ns(namespace), <<>>)
        n    == LoopLen(scan, ns(namespace))
    IN  [infos |-> [i \in 1..n |-> walkInfo(namespace, scan[i])],
         err |-> IF failAt \in 1..n THEN "walkFunc error" ELSE NoError]

\* WalkNamespace with a walkFunc that returns an error at its failAt-th
\* call (never when failAt = 0): the infos passed to walkFunc, and the error
\* returned.  key[len(ns(namespace)) : len(key)-16] is out of range for a key
\* shorter than the prefix and the suffix together.  [infos, err]
storeWalkNamespace(d, namespace, failAt) ==
    LET scan  == Scan(d, ns(namespace), <<>>)
        n     == LoopLen(scan, ns(namespace))
        short == {i \in 1..n : Len(scan[i]) - 16 < Len(ns(namespace))}
        ps    == IF short = {} THEN n + 1 ELSE Min(short)
        fs    == IF failAt \in 1..n THEN failAt ELSE n + 1
    IN  IF ps <= fs /\ ps <= n
        THEN [infos |-> [i \in 1..(ps - 1) |-> walkInfo(namespace, scan[i])],
              err |-> Panic]
        ELSE IF fs <= n
        THEN [infos |-> [i \in 1..fs |-> walkInfo(namespace, scan[i])],
              err |-> "walkFunc error"]
        ELSE [infos |-> [i \in 1..n |-> walkInfo(namespace, scan[i])],
              err |-> NoError]

\* filestore.FormatV1, the only format the store takes
FormatV1 == 1

\* a DeleteWithStorageFormat that does not look at the format
storeDeleteWithStorageFormat_Any(d, ref, formatVer) ==
    [db |-> storeDelete(d, ref), err |-> NoError]

\* OpenWithStorageFormat: [err, content]
storeOpenWithStorageFormat(d, ref, formatVer) ==
    IF formatVer # FormatV1
    THEN [err |-> "Unsupported format", content |-> <<>>]
    ELSE LET r == NewReader(d, ref)
         IN  [err |-> r.err,
              content |-> IF r.err = NoError THEN <<ReadAll(r, 1)>> ELSE <<>>]

\* DeleteWithStorageFormat: [db, err]
storeDeleteWithStorageFormat(d, ref, formatVer) ==
    IF formatVer # FormatV1
    THEN [db |-> d, err |-> "Unsupported format"]
    ELSE [db |-> storeDelete(d, ref), err |-> NoError]

\* StatWithStorageFormat: [info, err]
storeStatWithStorageFormat(d, ref, formatVer) ==
    IF formatVer # FormatV1
    THEN [info |-> <<>>, err |-> "Unsupported format"]
    ELSE LET r == storeStat(d, ref) IN [info |-> <<r.info>>, err |-> r.err]

----------------------------------------------------------------------------
(* The calls a client makes, one at a time.                                *)

RefA == Ref(<<1>>, <<2>>)
RefB == Ref(<<1>>, <<2, 2>>)
RefC == Ref(<<1, 2>>, <<2>>)
RefD == Ref(<<3>>, <<2>>)

Records(d) == BlobKeys(d) \cup TrashKeys(d)

Create(ref) ==
    LET e == ensureNamespace(db, namespaces, ref)
    IN  /\ db' = e.db
        /\ namespaces' = e.namespaces
        /\ w' = NewWriter(ref)
        /\ ret' = Result("Create", ref, NoError, <<>>, 0)
        /\ UNCHANGED <<now, calls, reader>>

\* data grows by the bytes Write took, cover records where they went
Write(p) ==
    /\ w.made
    /\ IF writePanics(w, p)
       THEN /\ w' = w
            /\ ret' = Result("Write", w.ref, Panic, <<>>, 0)
       ELSE /\ w' = [writerWrite(w, p) EXCEPT
                        !.data = IF w.seeked THEN <<>> ELSE w.data \o p,
                        !.cover = [i \in 1..Len(w.cover) |->
                                     IF w.offset < i /\ i <= w.offset + Len(p)
                                     THEN p[i - w.offset] ELSE w.cover[i]]]
            /\ ret' = Result("Write", w.ref, NoError, <<>>, Len(p))
    /\ UNCHANGED <<db, namespaces, now, calls, reader>>

Seek(offset) ==
    /\ w.made
    /\ w' = [writerSeek(w, offset) EXCEPT !.seeked = TRUE, !.data = <<>>]
    /\ ret' = Result("Seek", w.ref, NoError, <<>>, 0)
    /\ UNCHANGED <<db, namespaces, now, calls, reader>>

Commit ==
    /\ w.made
    /\ LET c == writerCommit(w, db, now)
       IN  /\ Cardinality(Records(c.db)) <= MaxCommitted
           /\ db' = c.db
           /\ w' = c.w
           /\ ret' = Result("Commit", w.ref, c.err, <<>>, 0)
    /\ UNCHANGED <<namespaces, now, calls, reader>>

Cancel ==
    /\ w.made
    /\ w' = writerCancel(w)
    /\ ret' = Result("Cancel", w.ref, NoError, <<>>, 0)
    /\ UNCHANGED <<db, namespaces, now, calls, reader>>

Delete(ref) ==
    /\ db' = storeDelete(db, ref)
    /\ ret' = Result("Delete", ref, NoError, <<>>,
                     Len(Scan(db, keyPrefix(ref), keyPrefix(ref))))
    /\ UNCHANGED <<namespaces, w, now, calls, reader>>

Trash(ref) ==
    LET n == Len(Scan(db, keyPrefix(ref), keyPrefix(ref)))
    IN  \E fits \in Fits(n, PrefetchLiteral) :
            /\ db' = storeTrash(db, ref, fits)
            /\ ret' = Result("Trash", ref, NoError, <<>>, n)
            /\ UNCHANGED <<namespaces, w, now, calls, reader>>

RestoreTrash(namespace) ==
    \E fits \in Fits(Len(Scan(db, trashPrefix, <<>>)), PrefetchDefault) :
        LET r == storeRestoreTrash(db, fits)
        IN  /\ db' = r.db
            /\ ret' = Result("RestoreTrash", Ref(namespace, <<>>), NoError,
                             r.keys, Len(r.keys))
            /\ UNCHANGED <<namespaces, w, now, calls, reader>>

EmptyTrash(namespace, trashedBefore) ==
    LET r == storeEmptyTrash(db)
    IN  /\ db' = r.db
        /\ ret' = Result("EmptyTrash", Ref(namespace, <<>>), r.err, r.keys,
                         Len(r.keys))
        /\ UNCHANGED <<namespaces, w, now, calls, reader>>

DeleteNamespace(ref) ==
    \E fits \in Fits(Len(Scan(db, namespacePrefix \o ref, <<>>)), PrefetchDefault) :
        /\ db' = storeDeleteNamespace(db, ref, fits)
        /\ ret' = Result("DeleteNamespace", Ref(ref, <<>>), NoError, <<>>, 0)
        /\ UNCHANGED <<namespaces, w, now, calls, reader>>

(* The bulk operations with an engine that refuses the failAt-th of their  *)
(* Set and Delete calls; n is failAt.                                      *)
DeleteFailing(ref, failAt) ==
    /\ failAt \in 0..Len(Scan(db, keyPrefix(ref), keyPrefix(ref)))
    /\ LET r == storeDeleteFailing(db, ref, failAt)
       IN  /\ db' = r.db
           /\ ret' = Result("Delete", ref, r.err, <<>>, failAt)
    /\ UNCHANGED <<namespaces, w, now, calls, reader>>

TrashFailing(ref, failAt) ==
    LET n == Len(Scan(db, keyPrefix(ref), keyPrefix(ref)))
    IN  /\ failAt \in 0..(2 * n)
        /\ \E fits \in Fits(n, PrefetchLiteral) :
               LET r == storeTrashFailing(db, ref, fits, failAt)
               IN  /\ db' = r.db
                   /\ ret' = Result("Trash", ref, r.err, <<>>, failAt)
        /\ UNCHANGED <<namespaces, w, now, calls, reader>>

RestoreTrashFailing(namespace, failAt) ==
    LET scan == Scan(db, trashPrefix, <<>>)
    IN  /\ failAt \in 0..(2 * LoopLen(scan, trashPrefix))
        /\ \E fits \in Fits(Len(scan), PrefetchDefault) :
               LET r == storeRestoreTrashFailing(db, fits, failAt)
               IN  /\ db' = r.db
                   /\ ret' = Result("RestoreTrash", Ref(namespace, <<>>), r.err,
                                    r.keys, failAt)
        /\ UNCHANGED <<namespaces, w, now, calls, reader>>

\* the calls that name a storage format; n is the format asked for
OpenWithStorageFormat(ref, formatVer) ==
    LET r == storeOpenWithStorageFormat(db, ref, formatVer)
    IN  /\ ret' = Result("OpenWithStorageFormat", ref, r.err, r.content, formatVer)
        /\ UNCHANGED <<db, namespaces, w, now, calls, reader>>

DeleteWithStorageFormat(ref, formatVer) ==
    LET r == storeDeleteWithStorageFormat(db, ref, formatVer)
    IN  /\ db' = r.db
        /\ ret' = Result("DeleteWithStorageFormat", ref, r.err, <<>>, formatVer)
        /\ UNCHANGED <<namespaces, w, now, calls, reader>>

StatWithStorageFormat(ref, formatVer) ==
    LET r == storeStatWithStorageFormat(db, ref, formatVer)
    IN  /\ ret' = Result("StatWithStorageFormat", ref, r.err, r.info, formatVer)
        /\ UNCHANGED <<db, namespaces, w, now, calls, reader>>

\* key(ref, time.Now(), size), as Commit calls it
EncodeKey(ref, size) ==
    /\ ret' = Result("key", ref, NoError, <<key(ref, now, size)>>, size)
    /\ UNCHANGED <<db, namespaces, w, now, calls, reader>>

\* stat(key), as WalkNamespace calls it on the key it read
DecodeKey ==
    /\ ret.op = "key"
    /\ ret' = Result("stat", ret.arg, NoError, <<stat(ret.keys[1])>>, ret.n)
    /\ UNCHANGED <<db, namespaces, w, now, calls, reader>>

(* Create run by several callers at once.  BlobStore holds no lock, so the *)
(* steps of ensureNamespace of one caller interleave with those of another: *)
(* the membership check, the marker write, and the append, which reads the  *)
(* slice b.namespaces and then stores the extended slice.                   *)
CreateCheck(c, ref) ==
    /\ calls[c].pc = "idle"
    /\ calls' = [calls EXCEPT ![c] =
                    [pc |-> IF registered(namespaces, ref.Namespace)
                            THEN "return" ELSE "set",
                     ref |-> ref, seen |-> namespaces]]
    /\ UNCHANGED <<db, namespaces, w, now, ret, reader>>

CreateSet(c) ==
    /\ calls[c].pc = "set"
    /\ db' = Put(db, namespacePrefix \o calls[c].ref.Namespace, <<1>>)
    /\ calls' = [calls EXCEPT ![c].pc = "load"]
    /\ UNCHANGED <<namespaces, w, now, ret, reader>>

CreateLoad(c) ==
    /\ calls[c].pc = "load"
    /\ calls' = [calls EXCEPT ![c].pc = "store", ![c].seen = namespaces]
    /\ UNCHANGED <<db, namespaces, w, now, ret, reader>>

CreateStore(c) ==
    /\ calls[c].pc = "store"
    /\ namespaces' = Append(calls[c].seen, calls[c].ref.Namespace)
    /\ calls' = [calls EXCEPT ![c].pc = "return"]
    /\ UNCHANGED <<db, w, now, ret, reader>>

\* return NewWriter(b.db, ref), err
CreateReturn(c) ==
    /\ calls[c].pc = "return"
    /\ w' = NewWriter(calls[c].ref)
    /\ ret' = Result("Create", calls[c].ref, NoError, <<>>, c)
    /\ calls' = [calls EXCEPT ![c].pc = "done"]
    /\ UNCHANGED <<db, namespaces, now, reader>>

\* Close, then NewBlobStore on the same directory; the writer of the closed
\* store is dropped with it
Reopen ==
    \E fits \in Fits(Len(Scan(db, namespacePrefix, <<>>)), PrefetchDefault) :
        /\ namespaces' = loadNamespaces(db, fits)
        /\ w' = NoWriter
        /\ ret' = Result("NewBlobStore", NoRef, NoError, <<>>, 0)
        /\ UNCHANGED <<db, now, calls, reader>>

Open(ref) ==
    LET r == NewReader(db, ref)
    IN  /\ ret' = Result("Open", ref, r.err,
                         IF r.err = NoError THEN <<ReadAll(r, 1)>> ELSE <<>>,
                         IF r.err = NoError THEN readerSize(r) ELSE 0)
        /\ UNCHANGED <<db, namespaces, w, now, calls, reader>>

\* the calls on the reader Open returned; p is a slice of n bytes
Read(n) ==
    /\ reader # NoReader
    /\ LET got == readerRead(reader, n)
       IN  /\ reader' = got.r
           /\ ret' = Result("Read", NoRef, IF got.eof THEN "EOF" ELSE NoError,
                            <<got.p>>, got.n)
    /\ UNCHANGED <<db, namespaces, w, now, calls>>

ReadAt(n, off) ==
    /\ reader # NoReader
    /\ LET got == readerReadAt(reader, n, off)
       IN  /\ got.r.offset <= MaxCursor
           /\ reader' = got.r
           /\ ret' = Result("ReadAt", NoRef, got.err, <<got.p>>, got.n)
    /\ UNCHANGED <<db, namespaces, w, now, calls>>

\* Seek(offset, io.SeekStart)
ReaderSeek(offset) ==
    /\ reader # NoReader
    /\ reader' = [reader EXCEPT !.offset = offset]
    /\ ret' = Result("reader.Seek", NoRef, NoError, <<>>, offset)
    /\ UNCHANGED <<db, namespaces, w, now, calls>>

\* ListNamespaces returns the slice b.namespaces
ListNamespaces ==
    /\ ret' = Result("ListNamespaces", NoRef, NoError, namespaces,
                     Len(namespaces))
    /\ UNCHANGED <<db, namespaces, w, now, calls, reader>>

Stat(ref) ==
    LET r == storeStat(db, ref)
    IN  /\ ret' = Result("Stat", ref, r.err, <<r.info>>, r.info.size)
        /\ UNCHANGED <<db, namespaces, w, now, calls, reader>>

SpaceUsedForTrash ==
    /\ ret' = Result("SpaceUsedForTrash", NoRef, NoError, <<>>,
                     storeSpaceUsedForTrash(db))
    /\ UNCHANGED <<db, namespaces, w, now, calls, reader>>

SpaceUsedForBlobs ==
    /\ ret' = Result("SpaceUsedForBlobs", NoRef, NoError, <<>>,
                     storeSpaceUsedForBlobs(db))
    /\ UNCHANGED <<db, namespaces, w, now, calls, reader>>

SpaceUsedForBlobsInNamespace(namespace) ==
    /\ ret' = Result("SpaceUsedForBlobsInNamespace", Ref(namespace, <<>>),
                     NoError, <<>>,
                     storeSpaceUsedForBlobsInNamespace(db, namespace))
    /\ UNCHANGED <<db, namespaces, w, now, calls, reader>>

\* n is failAt, the walkFunc call that is to return an error, 0 if none is
WalkNamespace(namespace, failAt) ==
    LET r == storeWalkNamespace(db, namespace, failAt)
    IN  /\ ret' = Result("WalkNamespace", Ref(namespace, <<>>), r.err, r.infos,
                         failAt)
        /\ UNCHANGED <<db, namespaces, w, now, calls, reader>>

Tick ==
    /\ now < MaxTime
    /\ now' = now + 1
    /\ ret' = Result("Tick", NoRef, NoError, <<>>, 0)
    /\ UNCHANGED <<db, namespaces, w, calls, reader>>

----------------------------------------------------------------------------
(* Spec: the store operations on a directory that earlier sessions wrote.  *)
(* NewBlobStore opens whatever the directory holds: here any records that  *)
(* Commit produced (key(ref, time, len(value)) -> value), with the marker   *)
(* of every namespace written.                                             *)

Refs == {RefA, RefB, RefD}
Namespaces == {r.Namespace : r \in Refs}
\* the values earlier sessions committed, one of each length a writer holds
Values == {[i \in 1..n |-> 1 + (i % 2)] : n \in 0..BufCap}

RECURSIVE UpTo(_, _)
UpTo(S, n) ==
    IF n = 0 THEN {{}}
    ELSE LET P == UpTo(S, n - 1) IN P \cup {p \cup {x} : p \in P, x \in S}

Committed ==
    {[ref |-> r, time |-> t, value |-> v] :
        r \in Refs, t \in 1..MaxTime, v \in Values}

StoreOf(S) ==
    LET blobs   == {key(c.ref, c.time, Len(c.value)) : c \in S}
        markers == {namespacePrefix \o c.ref.Namespace : c \in S}
    IN  [k \in blobs \cup markers |->
            IF k \in markers THEN <<1>>
            ELSE (CHOOSE c \in S : key(c.ref, c.time, Len(c.value)) = k).value]

Init ==
    /\ \E S \in UpTo(Committed, MaxRecords) : db = StoreOf(S)
    /\ namespaces = loadNamespaces(db, NoFit(0, PrefetchDefault))
    /\ w = NoWriter
    /\ now = MaxTime
    /\ ret = Result("NewBlobStore", NoRef, NoError, <<>>, 0)
    /\ calls = NoCalls
    /\ reader = NoReader

Next ==
    \/ \E ref \in Refs : Delete(ref)
    \/ \E ref \in Refs : Trash(ref)
    \/ \E namespace \in Namespaces : RestoreTrash(namespace)
    \/ \E namespace \in Namespaces, t \in 1..MaxTime : EmptyTrash(namespace, t)

Spec == Init /\ [][Next]_vars

----------------------------------------------------------------------------
(* SpecWriter: one writer at a time on an empty store.                     *)

WriterRefs == {RefA}
\* the slices passed to Write: every length up to one more than the capacity
Payloads == {[i \in 1..n |-> 1 + (i % 2)] : n \in 1..(BufCap + 1)}

InitEmpty ==
    /\ db = EmptyDB
    /\ namespaces = <<>>
    /\ w = NoWriter
    /\ now = 1
    /\ ret = Result("NewBlobStore", NoRef, NoError, <<>>, 0)
    /\ calls = NoCalls
    /\ reader = NoReader

NextWriter ==
    \/ \E ref \in WriterRefs : Create(ref)
    \/ \E p \in Payloads : Write(p)
    \/ \E offset \in 0..(BufCap + 1) : Seek(offset)
    \/ Commit
    \/ Cancel
    \/ Tick

SpecWriter == InitEmpty /\ [][NextWriter]_vars

----------------------------------------------------------------------------
(* SpecNs: the namespace registry over Create and restarts.                *)

RefE == Ref(<<2>>, <<1>>)
NsRefs == {RefA, RefB, RefC, RefD, RefE}

NextNs ==
    \/ \E ref \in NsRefs : Create(ref)
    \/ Reopen
    \/ \E ref \in NsRefs : DeleteNamespace(ref.Namespace)

SpecNs == InitEmpty /\ [][NextNs]_vars

----------------------------------------------------------------------------
(* SpecBulk: a store that holds about as many trash records as the         *)
(* iterator reads ahead.  The directory holds BulkStored trashed blobs of   *)
(* one namespace, each trashed by its own Trash call, and Loose live ones.  *)

BulkStored == PrefetchDefault - 1
Loose == 2

BulkNs == <<1>>
BulkRef(i) == Ref(BulkNs, <<i>>)
LooseRefs == {BulkRef(BulkStored + j) : j \in 1..Loose}

InitBulk ==
    /\ db = [k \in {trashKey(BulkRef(i)) \o BE8(1) \o BE8(1) : i \in 1..BulkStored}
                  \cup {key(r, 1, 1) : r \in LooseRefs}
                  \cup {namespacePrefix \o BulkNs} |-> <<1>>]
    /\ namespaces = <<BulkNs>>
    /\ w = NoWriter
    /\ now = MaxTime
    /\ ret = Result("NewBlobStore", NoRef, NoError, <<>>, 0)
    /\ calls = NoCalls
    /\ reader = NoReader

NextBulk ==
    \/ \E ref \in LooseRefs : Trash(ref)
    \/ \E ref \in LooseRefs : Delete(ref)
    \/ RestoreTrash(BulkNs)
    \/ SpaceUsedForTrash

SpecBulk == InitBulk /\ [][NextBulk]_vars

----------------------------------------------------------------------------
(* SpecBulkNs: a store that holds about as many namespaces as the iterator *)
(* reads ahead.                                                            *)

BulkNamespace(i) == <<i>>
LooseNs == 4
LooseNsRefs == {Ref(BulkNamespace(BulkStored + j), <<2>>) : j \in 1..LooseNs}

InitBulkNs ==
    /\ db = [k \in {namespacePrefix \o BulkNamespace(i) : i \in 1..BulkStored}
                |-> <<1>>]
    /\ namespaces = loadNamespaces(db, NoFit(0, PrefetchDefault))
    /\ w = NoWriter
    /\ now = 1
    /\ ret = Result("NewBlobStore", NoRef, NoError, <<>>, 0)
    /\ calls = NoCalls
    /\ reader = NoReader

NextBulkNs ==
    \/ \E ref \in LooseNsRefs : Create(ref)
    \/ Reopen

SpecBulkNs == InitBulkNs /\ [][NextBulkNs]_vars

----------------------------------------------------------------------------
(* SpecRead: the calls that only read, on a directory that earlier         *)
(* sessions wrote.  One namespace of ReadRefs extends another, and the     *)
(* scan prefix of one ref is a prefix of another's key.                    *)

MaxStored == 2
ReadRefs == {RefA, RefC, RefD}
ReadNamespaces == {r.Namespace : r \in ReadRefs}

CommittedBy(R) ==
    {[ref |-> r, time |-> t, value |-> v] :
        r \in R, t \in 1..MaxTime, v \in Values}

\* NewBlobStore on a directory holding at most n records of the refs R
InitStored(R, n) ==
    /\ \E S \in UpTo(CommittedBy(R), n) : db = StoreOf(S)
    /\ namespaces = loadNamespaces(db, NoFit(0, PrefetchDefault))
    /\ w = NoWriter
    /\ now = MaxTime
    /\ ret = Result("NewBlobStore", NoRef, NoError, <<>>, 0)
    /\ calls = NoCalls
    /\ reader = NoReader

InitRead == InitStored(ReadRefs, MaxStored)

NextRead ==
    \/ \E ref \in ReadRefs : Open(ref)
    \/ \E ref \in ReadRefs : Stat(ref)
    \/ SpaceUsedForBlobs
    \/ \E namespace \in ReadNamespaces : SpaceUsedForBlobsInNamespace(namespace)
    \/ \E namespace \in ReadNamespaces, failAt \in 0..MaxStored :
          WalkNamespace(namespace, failAt)

SpecRead == InitRead /\ [][NextRead]_vars

----------------------------------------------------------------------------
(* SpecPurge: DeleteNamespace on a directory that holds blobs, and the     *)
(* calls that show what it left.                                           *)

NextPurge ==
    \/ \E namespace \in ReadNamespaces : DeleteNamespace(namespace)
    \/ \E ref \in ReadRefs : Open(ref)
    \/ \E namespace \in ReadNamespaces : WalkNamespace(namespace, 0)
    \/ ListNamespaces

SpecPurge == InitRead /\ [][NextPurge]_vars

----------------------------------------------------------------------------
(* SpecReader: the calls on the reader of a blob that Open returned, on a  *)
(* directory that earlier sessions wrote.                                  *)

\* NewBlobStore and Open(ref) of a ref that has a record
InitReader ==
    /\ \E S \in UpTo(CommittedBy(WriterRefs), MaxStored) : db = StoreOf(S)
    /\ namespaces = loadNamespaces(db, NoFit(0, PrefetchDefault))
    /\ w = NoWriter
    /\ now = MaxTime
    /\ calls = NoCalls
    /\ \E ref \in WriterRefs :
          LET r == NewReader(db, ref)
          IN  /\ r.err = NoError
              /\ reader = [offset |-> r.offset, length |-> r.length,
                           buffer |-> r.buffer]
              /\ ret = Result("Open", ref, NoError, <<>>, readerSize(r))

NextReader ==
    \/ \E n \in 0..BufCap : Read(n)
    \/ \E n \in 0..BufCap, off \in 0..MaxCursor : ReadAt(n, off)
    \/ \E offset \in 0..MaxCursor : ReaderSeek(offset)

SpecReader == InitReader /\ [][NextReader]_vars

----------------------------------------------------------------------------
(* SpecFault: the bulk operations on an engine that may refuse a write or  *)
(* a delete.                                                               *)

FaultRefs == {RefA, RefB}
FaultNamespaces == {r.Namespace : r \in FaultRefs}

InitFault == InitStored(FaultRefs, MaxStored)

NextFault ==
    \/ \E ref \in FaultRefs, failAt \in 0..MaxStored : DeleteFailing(ref, failAt)
    \/ \E ref \in FaultRefs, failAt \in 0..(2 * MaxStored) : TrashFailing(ref, failAt)
    \/ \E namespace \in FaultNamespaces, failAt \in 0..(2 * MaxStored) :
          RestoreTrashFailing(namespace, failAt)
    \/ \E namespace \in FaultNamespaces : EmptyTrash(namespace, now)

SpecFault == InitFault /\ [][NextFault]_vars

----------------------------------------------------------------------------
(* SpecFormat: the calls that name a storage format.                       *)

FormatRefs == {RefA, RefB}
Formats == 0..(FormatV1 + 1)

InitFormat == InitStored(FormatRefs, MaxStored)

NextFormat ==
    \/ \E ref \in FormatRefs, formatVer \in Formats :
          OpenWithStorageFormat(ref, formatVer)
    \/ \E ref \in FormatRefs, formatVer \in Formats :
          DeleteWithStorageFormat(ref, formatVer)
    \/ \E ref \in FormatRefs, formatVer \in Formats :
          StatWithStorageFormat(ref, formatVer)

SpecFormat == InitFormat /\ [][NextFormat]_vars

----------------------------------------------------------------------------
(* SpecKey: the key codec on times and sizes of one to four bytes.         *)

KeyRefs == {NoRef, RefA, RefB, RefC}
Samples == {0, 1, 255, 256, 65535, 65536, 16777215, 16777216, 2147483647}

InitKey ==
    /\ db = EmptyDB
    /\ namespaces = <<>>
    /\ w = NoWriter
    /\ now \in Samples
    /\ ret = Result("NewBlobStore", NoRef, NoError, <<>>, 0)
    /\ calls = NoCalls
    /\ reader = NoReader

NextKey ==
    \/ \E ref \in KeyRefs, size \in Samples : EncodeKey(ref, size)
    \/ DecodeKey

SpecKey == InitKey /\ [][NextKey]_vars

----------------------------------------------------------------------------
(* SpecRace: callers that run one Create each on an empty store, with no   *)
(* synchronization between them.                                           *)

RaceRefs == {RefA, RefB, RefD}

NextRace ==
    \/ \E c \in Callers, ref \in RaceRefs : CreateCheck(c, ref)
    \/ \E c \in Callers : CreateSet(c)
    \/ \E c \in Callers : CreateLoad(c)
    \/ \E c \in Callers : CreateStore(c)
    \/ \E c \in Callers : CreateReturn(c)

SpecRace == InitEmpty /\ [][NextRace]_vars

----------------------------------------------------------------------------
(* SpecSuffix: blobs written, trashed and restored on an empty store.      *)

NextSuffix ==
    \/ \E ref \in WriterRefs : Create(ref)
    \/ \E p \in Payloads : Write(p)
    \/ \E offset \in 0..BufCap : Seek(offset)
    \/ Commit
    \/ Tick
    \/ \E ref \in WriterRefs : Trash(ref)
    \/ \E ref \in WriterRefs : RestoreTrash(ref.Namespace)

SpecSuffix == InitEmpty /\ [][NextSuffix]_vars

----------------------------------------------------------------------------
(* Properties.                                                             *)

\* the records a call on ref reads: those under keyPrefix(ref)
Under(d, ref) == Scan(d, keyPrefix(ref), keyPrefix(ref))

\* the live records Commit stored for ref
Live(d, ref) ==
    {k \in BlobKeys(d) :
        HasPrefix(k, keyPrefix(ref)) /\ Len(k) = Len(keyPrefix(ref)) + 16}

\* C1: write/read identity.  Every Write on an open writer takes its bytes,
\* and a Commit after Create on a ref with no live record and Writes of B
\* with no Seek is followed by an Open(ref) that reads exactly B to the end,
\* whatever the size of the slices B was written in and is read in.
C1_WriteReadIdentity ==
    [][/\ (ret'.op = "Write" /\ w.buffer # NilBuf => ret'.err = NoError)
       /\ (ret'.op = "Commit" /\ w.buffer # NilBuf /\ ~w.seeked
              /\ Under(db, w.ref) = <<>>
            => /\ ret'.err = NoError
               /\ NewReader(db', w.ref).err = NoError
               /\ \A chunk \in 1..(BufCap + 1) :
                     ReadAll(NewReader(db', w.ref), chunk) = w.data)]_vars

\* C2: nothing is visible before Commit.  Create, Write, Seek and Cancel
\* leave the blobs and trash partitions as they were and an Open that
\* failed still fails; only a successful Commit changes the live records.
C2_VisibleOnlyAtCommit ==
    [][/\ (ret'.op \in {"Create", "Write", "Seek", "Cancel"}
            => /\ Part(db', BlobKeys(db')) = Part(db, BlobKeys(db))
               /\ Part(db', TrashKeys(db')) = Part(db, TrashKeys(db))
               /\ \A ref \in WriterRefs :
                     NewReader(db, ref).err = "missing blob"
                     => NewReader(db', ref).err = "missing blob")
       /\ (BlobKeys(db') # BlobKeys(db)
            => ret'.op = "Commit" /\ ret'.err = NoError)]_vars

\* a Cancel on a writer that was written up to its capacity, on a store that
\* holds no blob
C2_CancelledWriter ==
    /\ ret.op = "Cancel"
    /\ w.length = BufCap
    /\ BlobKeys(db) = {}
    /\ NewReader(db, w.ref).err = "missing blob"

\* C3: after Delete(ref), Open(ref) fails with the not-found error whatever
\* number of versions of ref there were, and a Delete of a ref with no
\* record returns no error and leaves the store as it was.
C3_DeleteThenOpen ==
    [][ret'.op = "Delete"
       => /\ ret'.err = NoError
          /\ NewReader(db', ret'.arg).err = "missing blob"
          /\ (Live(db, ret'.arg) = {} => db' = db)]_vars

\* a Delete that removed several versions
C3_DeletedVersions ==
    /\ ret.op = "Delete"
    /\ ret.n >= 2
    /\ NewReader(db, ret.arg).err = "missing blob"

\* C4: trash/restore round trip.  After Trash(ref) of a ref that could be
\* opened, Open(ref) fails with the not-found error; a RestoreTrash that
\* follows the Trash of a blob makes Open(ref) read the blob's bytes again.
C4_TrashRestoreRoundTrip ==
    [][/\ (ret'.op = "Trash" /\ NewReader(db, ret'.arg).err = NoError
            => NewReader(db', ret'.arg).err = "missing blob")
       /\ (ret.op = "Trash" /\ ret'.op = "RestoreTrash"
              /\ Under(db, ret.arg) = <<>>
              /\ Len(Scan(db, trashKey(ret.arg), trashKey(ret.arg))) = 1
            => ReadAll(NewReader(db', ret.arg), 1)
                 = db[Scan(db, trashKey(ret.arg), trashKey(ret.arg))[1]])]_vars

\* C5: Trash(ref) moves every live record of ref.  Afterwards no record is
\* left under keyPrefix(ref), and each record that was there has a trash
\* record whose key differs in the partition tag only and whose value is the
\* same.
C5_TrashMovesEveryRecord ==
    [][ret'.op = "Trash"
       => /\ Under(db', ret'.arg) = <<>>
          /\ \A k \in Range(Under(db, ret'.arg)) :
                LET t == trashPrefix \o Drop(k, Len(blobPrefix))
                IN  t \in DOMAIN db' /\ db'[t] = db[k]]_vars

\* C6: EmptyTrash removes every trash record.  It returns no error, the
\* trash partition is empty afterwards, the keys returned are the keys of
\* the records that were in it, and the live records are as they were.
C6_EmptyTrashRemovesAll ==
    [][ret'.op = "EmptyTrash"
       => /\ ret'.err = NoError
          /\ TrashKeys(db') = {}
          /\ Range(ret'.keys) = TrashKeys(db)
          /\ Part(db', BlobKeys(db')) = Part(db, BlobKeys(db))]_vars

\* C7: RestoreTrash moves every trash record back.  Afterwards the trash
\* partition is empty, each record that was in it has a live record whose
\* key differs in the partition tag only and whose value is the same, and
\* as many keys are returned as there were trash records.
C7_RestoreTrashMovesAll ==
    [][ret'.op = "RestoreTrash"
       => /\ TrashKeys(db') = {}
          /\ \A k \in TrashKeys(db) :
                LET b == blobPrefix \o Drop(k, Len(trashPrefix))
                IN  b \in DOMAIN db' /\ db'[b] = db[k]
          /\ Len(ret'.keys) = Cardinality(TrashKeys(db))]_vars

\* C8: the registry never holds a namespace twice, and a Create leaves the
\* namespace of its ref in the registry exactly once and every other entry
\* as it was.
C8_CreateRegistersOnce ==
    /\ [](\A i, j \in 1..Len(namespaces) :
            namespaces[i] = namespaces[j] => i = j)
    /\ [][ret'.op = "Create"
          => /\ Cardinality({i \in 1..Len(namespaces') :
                                namespaces'[i] = ret'.arg.Namespace}) = 1
             /\ Range(namespaces) \subseteq Range(namespaces')
             /\ Len(namespaces') <= Len(namespaces) + 1]_vars

\* a Create on a namespace that was registered before another one: the
\* namespace of the call is the first of two entries, and a namespace that
\* this call registered would be the last
C8_RepeatedCreate ==
    /\ ret.op = "Create"
    /\ Len(namespaces) = 2
    /\ namespaces[1] = ret.arg.Namespace

\* C9: after Close and NewBlobStore on the same directory the registry
\* holds the namespaces it held before the close, each once.
C9_RegistrationSurvivesRestart ==
    [][ret'.op = "NewBlobStore"
       => /\ Len(namespaces') = Len(namespaces)
          /\ Range(namespaces') = Range(namespaces)]_vars

\* C10: a Commit on a writer whose buffer was released, by a Commit or by a
\* Cancel, returns the already-finalized error and leaves the store as it
\* was.
C10_CommitAfterFinalize ==
    [][ret'.op = "Commit" /\ w.buffer = NilBuf
       => ret'.err = "Already committed" /\ db' = db]_vars

\* a Commit refused on a store that holds a committed blob of the writer's
\* ref
C10_RefusedCommit ==
    /\ ret.op = "Commit"
    /\ ret.err = "Already committed"
    /\ Under(db, w.ref) # <<>>

\* C11: the first of Commit and Cancel finalizes the writer, and every
\* later Commit or Cancel on it returns the already-finalized error.
C11_FinalizeOnce ==
    [][ret'.op \in {"Commit", "Cancel"} /\ w.buffer = NilBuf
       => ret'.err = "Already committed"]_vars

\* C12: sparse write.  Every Write on an open writer takes its bytes at the
\* offset and moves the offset past them, and Commit stores a value that
\* ends at the offset, in which every position no Write covered is zero and
\* every other position holds the byte of the last Write that covered it;
\* so Seek(k), Write(X), Commit on a fresh writer stores k zeros and then X.
C12_SparseWrite ==
    [][/\ (ret'.op = "Write" /\ w.buffer # NilBuf
            => ret'.err = NoError /\ w'.offset = w.offset + ret'.n)
       /\ (ret'.op = "Commit" /\ w.buffer # NilBuf
            => /\ ret'.err = NoError
               /\ key(w.ref, now, w.offset) \in DOMAIN db'
               /\ LET v == db'[key(w.ref, now, w.offset)]
                  IN  /\ Len(v) = w.offset
                      /\ \A i \in 1..Len(v) :
                            v[i] = IF w.cover[i] = -1 THEN 0 ELSE w.cover[i])]_vars

\* the live record keys that start with keyPrefix(ref)
Starting(d, ref) == {k \in BlobKeys(d) : HasPrefix(k, keyPrefix(ref))}

\* the least key of a non-empty set in the engine's key order
First(K) == CHOOSE k \in K : \A j \in K : LessEq(k, j)

\* C13: Open(ref) fails with the not-found error exactly when no live
\* record key starts with keyPrefix(ref); otherwise it succeeds, and the
\* content read to the end and Size are the value, and the length of the
\* value, of the first such record in key order.
C13_OpenFirstRecord ==
    ret.op = "Open"
    => IF Starting(db, ret.arg) = {}
       THEN ret.err = "missing blob"
       ELSE /\ ret.err = NoError
            /\ ret.keys = <<db[First(Starting(db, ret.arg))]>>
            /\ ret.n = Len(db[First(Starting(db, ret.arg))])

\* an Open answered from the first of two records of different lengths
C13_OpenOfTwoVersions ==
    /\ ret.op = "Open"
    /\ ret.err = NoError
    /\ \E k \in Starting(db, ret.arg) : Len(db[k]) # ret.n

\* the live records Commit stored for the refs of a namespace
RecordsOf(d, namespace) ==
    {k \in BlobKeys(d) :
        \E r \in ReadRefs : /\ r.Namespace = namespace
                            /\ HasPrefix(k, keyPrefix(r))
                            /\ Len(k) = Len(keyPrefix(r)) + 16}

\* the descriptor of the live record k of a namespace
InfoOf(d, namespace, k) ==
    LET r == CHOOSE r \in ReadRefs : /\ r.Namespace = namespace
                                     /\ HasPrefix(k, keyPrefix(r))
                                     /\ Len(k) = Len(keyPrefix(r)) + 16
    IN  [ref |-> r, size |-> Len(d[k]), name |-> r.Key, modTime |-> stat(k).time]

\* C14: a WalkNamespace(ns, cb) whose callback never fails invokes cb
\* exactly once for every live record whose namespace is ns and for no
\* other record, with a descriptor that carries the record's logical key,
\* its committed length as size and its commit time as modification time.
C14_WalkVisitsNamespace ==
    ret.op = "WalkNamespace" /\ ret.n = 0
    => /\ ret.err = NoError
       /\ Len(ret.keys) = Cardinality(RecordsOf(db, ret.arg.Namespace))
       /\ \A k \in RecordsOf(db, ret.arg.Namespace) :
              \E i \in 1..Len(ret.keys) :
                  ret.keys[i] = InfoOf(db, ret.arg.Namespace, k)

\* the sum of the value lengths of the records with the keys K
TotalLen(d, K) == SumSizes(d, SortKeys(K), 1, Cardinality(K))

\* C16: SpaceUsedForBlobs returns the sum of the value lengths of all live
\* records: 0 on a store with none, more by the length of every committed
\* blob, less by the length of every deleted or trashed one.
C16_SpaceUsedForBlobs ==
    ret.op = "SpaceUsedForBlobs"
    => ret.err = NoError /\ ret.n = TotalLen(db, BlobKeys(db))

\* C17: SpaceUsedForBlobsInNamespace(ns) returns the sum of the value
\* lengths of the live records of namespace ns, and counts no record of
\* another namespace.
C17_SpaceUsedInNamespace ==
    ret.op = "SpaceUsedForBlobsInNamespace"
    => /\ ret.err = NoError
       /\ ret.n = TotalLen(db, RecordsOf(db, ret.arg.Namespace))

\* C19: Stat(ref) on a store with no live record for ref fails with the
\* not-found error.
C19_StatNotFound ==
    ret.op = "Stat" /\ Live(db, ret.arg) = {} => ret.err = "missing blob"

\* C20: Stat(ref) on a store with exactly one live record for ref succeeds
\* with an info whose BlobRef is ref and whose size is the committed
\* length of that record.
C20_StatOfOneRecord ==
    ret.op = "Stat" /\ Cardinality(Live(db, ret.arg)) = 1
    => /\ ret.err = NoError
       /\ ret.keys[1].ref = ret.arg
       /\ ret.n = Len(db[First(Live(db, ret.arg))])

\* C15: when the engine refuses a write or a delete inside Delete, Trash,
\* RestoreTrash or EmptyTrash, the operation returns an error and the store
\* is exactly as it was before the call.
C15_FaultLeavesStore ==
    [][/\ (ret'.op \in {"Delete", "Trash", "RestoreTrash"} /\ ret'.n > 0
            => ret'.err # NoError /\ db' = db)
       /\ (ret'.op = "EmptyTrash" /\ TrashKeys(db) # {}
            => ret'.err # NoError /\ db' = db)]_vars

\* a Trash refused after the first of two records was moved, on a store
\* that still holds both
C15_TrashRefusedMidway ==
    /\ ret.op = "Trash"
    /\ ret.n >= 3
    /\ ret.err # NoError
    /\ Len(Under(db, ret.arg)) >= 2

\* C18: SpaceUsedForTrash returns, in every state, the sum of the value
\* lengths of all records of the trash partition; a Trash of a blob raises
\* that sum by the length of the blob, and a RestoreTrash brings it back to
\* 0.
C18_SpaceUsedForTrash ==
    [][/\ (ret'.op = "SpaceUsedForTrash"
            => ret'.err = NoError /\ ret'.n = TotalLen(db, TrashKeys(db)))
       /\ (ret'.op = "Trash" /\ ret'.err = NoError
            => TotalLen(db', TrashKeys(db'))
                  = TotalLen(db, TrashKeys(db)) + TotalLen(db, Live(db, ret'.arg)))
       /\ (ret'.op = "RestoreTrash" /\ ret'.err = NoError
            => TotalLen(db', TrashKeys(db')) = 0)]_vars

\* C21: Trash(ref) for a ref with no live record returns no error and
\* leaves the whole key-value store and the namespace registry unchanged.
C21_TrashOfAbsentRef ==
    [][ret'.op = "Trash" /\ Live(db, ret'.arg) = {}
       => ret'.err = NoError /\ db' = db /\ namespaces' = namespaces]_vars

\* the live records a walk of the namespace iterates over
Walked(d, namespace) == {k \in BlobKeys(d) : HasPrefix(k, ns(namespace))}

\* C22: when the callback returns an error for some record, WalkNamespace
\* invokes the callback for no further record and returns that same error.
C22_WalkStopsAtError ==
    /\ ret.op = "WalkNamespace"
    /\ ret.n \in 1..Cardinality(Walked(db, ret.arg.Namespace))
    => ret.err = "walkFunc error" /\ Len(ret.keys) = ret.n

\* a walk stopped by its first callback with a further record to visit
C22_WalkStoppedEarly ==
    /\ ret.op = "WalkNamespace"
    /\ ret.n = 1
    /\ ret.err = "walkFunc error"
    /\ Cardinality(Walked(db, ret.arg.Namespace)) >= 2

\* C23: OpenWithStorageFormat, DeleteWithStorageFormat and
\* StatWithStorageFormat with a format other than the supported one fail
\* with the unsupported-format error and leave the store alone; with the
\* supported format they return what Open, Delete and Stat return and leave
\* the store as those leave it.
C23_StorageFormat ==
    [][/\ (ret'.op \in {"OpenWithStorageFormat", "DeleteWithStorageFormat",
                        "StatWithStorageFormat"} /\ ret'.n # FormatV1
            => /\ ret'.err = "Unsupported format"
               /\ ret'.keys = <<>>
               /\ db' = db)
       /\ (ret'.op = "OpenWithStorageFormat" /\ ret'.n = FormatV1
            => LET r == NewReader(db, ret'.arg)
               IN  /\ ret'.err = r.err
                   /\ r.err = NoError => ret'.keys = <<ReadAll(r, 1)>>
                   /\ db' = db)
       /\ (ret'.op = "DeleteWithStorageFormat" /\ ret'.n = FormatV1
            => ret'.err = NoError /\ db' = storeDelete(db, ret'.arg))
       /\ (ret'.op = "StatWithStorageFormat" /\ ret'.n = FormatV1
            => /\ ret'.err = storeStat(db, ret'.arg).err
               /\ ret'.keys = <<storeStat(db, ret'.arg).info>>
               /\ db' = db)]_vars

\* a DeleteWithStorageFormat refused on a store that holds a record of the
\* ref
C23_RefusedDelete ==
    /\ ret.op = "DeleteWithStorageFormat"
    /\ ret.n # FormatV1
    /\ ret.err = "Unsupported format"
    /\ Live(db, ret.arg) # {}

\* C24: key round trip.  For every ref, every time of whole non-negative
\* seconds and every size >= 0, stat(key(ref, time, size)) is (time, size).
C24_KeyRoundTrip ==
    ret.op = "stat" => ret.keys = <<[time |-> now, size |-> ret.n]>>

\* a round trip of a time and a size of several bytes each, under a ref
\* whose namespace and key differ in length
C24_LongNumbers ==
    /\ ret.op = "stat"
    /\ now >= 65536
    /\ ret.n >= 256
    /\ Len(ret.arg.Namespace) # Len(ret.arg.Key)

\* C25: Delete(ref) leaves unchanged every record of a different ref, one
\* with another namespace or another key of any length, every trash record
\* and every namespace marker.
C25_DeleteFrame ==
    [][ret'.op = "Delete"
       => \A k \in DOMAIN db \ Live(db, ret'.arg) :
              k \in DOMAIN db' /\ db'[k] = db[k]]_vars

\* C26: an Open(ref) that succeeds returns the value of a record committed
\* under exactly ref, never bytes committed under a different ref, whatever
\* the lengths of the namespaces and keys.
C26_OpenOwnBytes ==
    ret.op = "Open" /\ ret.err = NoError
    => \E k \in Live(db, ret.arg) : ret.keys = <<db[k]>>

\* the number of entries of the registry that are the namespace
Entries(nss, namespace) == Cardinality({i \in 1..Len(nss) : nss[i] = namespace})

\* C27: the registration sequence is not atomic.  A caller goes on to write
\* the marker and to append only if its membership check found the
\* namespace absent, and once all callers of Create for one brand-new
\* namespace have returned, the marker is stored and the registry holds the
\* namespace once or as many times as there were callers: with two
\* callers whose checks both ran before either append, twice.
C27_RegistrationNotAtomic ==
    /\ \A c \in Callers :
          calls[c].pc \in {"set", "load"}
          => ~(\E i \in 1..Len(calls[c].seen) : calls[c].seen[i] = calls[c].ref.Namespace)
    /\ \A namespace \in {r.Namespace : r \in RaceRefs} :
          (\A c \in Callers : calls[c].pc = "done" /\ calls[c].ref.Namespace = namespace)
          => /\ namespacePrefix \o namespace \in DOMAIN db
             /\ Entries(namespaces, namespace) \in 1..NumCallers

\* two Creates for one namespace have returned and ListNamespaces holds
\* the namespace twice
C27_DuplicateEntry ==
    /\ \A c \in Callers : calls[c].pc = "done"
    /\ Len(namespaces) = 2
    /\ namespaces[1] = namespaces[2]

\* C28: in every state reached by sequential calls the registry mirrors
\* the persisted markers: every namespace with a marker is in the registry
\* and every namespace in the registry has a marker.
C28_RegistryMirrorsMarkers ==
    Range(namespaces) = {Drop(k, Len(namespacePrefix)) : k \in MarkerKeys(db)}

C30_BothVersionsKept ==
    [][ret'.op = "Commit" /\ ret'.err = NoError
       => /\ Live(db, w.ref) \subseteq Live(db', w.ref)
          /\ Cardinality(Live(db', w.ref)) = Cardinality(Live(db, w.ref)) + 1]_vars

\* the bytes of a record key after its partition prefix: namespace, key,
\* write time and size
Rest(k) == Drop(k, Len(blobPrefix))

\* C31: for every record of the blobs and trash partitions the size in the
\* last 8 bytes of the key is the length of the value; Commit stores such a
\* record, and the records Trash and RestoreTrash put into the other
\* partition carry the suffix, write time and size, of the records they
\* were moved from.
C31_SuffixMatchesValue ==
    /\ [](\A k \in BlobKeys(db) \cup TrashKeys(db) : stat(k).size = Len(db[k]))
    /\ [][/\ (ret'.op = "Commit" /\ ret'.err = NoError
               => \E k \in BlobKeys(db') :
                      /\ stat(k) = [time |-> now, size |-> w.offset]
                      /\ db'[k] = Take(w.buffer, w.offset))
          /\ (ret'.op = "Trash"
               => \A k \in TrashKeys(db') \ TrashKeys(db) :
                      \E b \in BlobKeys(db) :
                          Rest(b) = Rest(k) /\ Len(db[b]) = Len(db'[k]))
          /\ (ret'.op = "RestoreTrash"
               => \A k \in BlobKeys(db') \ BlobKeys(db) :
                      \E t \in TrashKeys(db) :
                          Rest(t) = Rest(k) /\ Len(db[t]) = Len(db'[k]))]_vars

\* a trashed blob of two bytes written at the second tick, just restored
C31_RestoredLater ==
    /\ ret.op = "RestoreTrash"
    /\ Len(ret.keys) = 1
    /\ \E k \in BlobKeys(db) :
          stat(k) = [time |-> MaxTime, size |-> BufCap] /\ Len(db[k]) = BufCap

\* C32: key(ref, time, size) is injective.  Whatever triple of a ref, a time
\* of whole seconds and a size encodes to the key just built is the triple
\* the key was built from, for namespaces and keys of any lengths.
C32_KeyInjective ==
    ret.op = "key"
    => \A ref \in KeyRefs, time \in Samples, size \in Samples :
           key(ref, time, size) = ret.keys[1]
           => ref = ret.arg /\ time = now /\ size = ret.n

\* a key built for a ref whose namespace and key, joined, are the bytes of
\* another ref's namespace and key
C32_SharedBytes ==
    /\ ret.op = "key"
    /\ \E ref \in KeyRefs :
          /\ ref # ret.arg
          /\ ref.Namespace \o ref.Key = ret.arg.Namespace \o ret.arg.Key

\* C33: after DeleteNamespace(ns) returns without error no live record of
\* ns remains: Open fails for every ref of ns, WalkNamespace(ns) visits
\* nothing, and ListNamespaces no longer returns ns.
C33_NamespaceGone ==
    [][ret'.op = "DeleteNamespace" /\ ret'.err = NoError
       => LET namespace == ret'.arg.Namespace
          IN  /\ \A ref \in ReadRefs :
                     ref.Namespace = namespace
                     => NewReader(db', ref).err # NoError
              /\ storeWalkNamespace(db', namespace, 0).infos = <<>>
              /\ namespace \notin Range(namespaces')]_vars

\* DeleteNamespace has returned for a namespace that holds a blob of its own
C33_DeletedWithBlobs ==
    /\ ret.op = "DeleteNamespace"
    /\ ret.err = NoError
    /\ \E ref \in ReadRefs :
          ref.Namespace = ret.arg.Namespace /\ Live(db, ref) # {}

\* C34: ReadAt(buf, off) with 0 <= off <= length copies min(len(buf),
\* length - off) bytes of the buffered content starting at off and leaves
\* the sequential cursor unchanged, so a following Read returns what it
\* would have returned before the ReadAt.
C34_ReadAtKeepsCursor ==
    [][\A n \in 0..BufCap, off \in 0..MaxCursor :
           ReadAt(n, off) /\ off <= reader.length
           => /\ ret'.err = NoError
              /\ ret'.n = Min({n, reader.length - off})
              /\ \A i \in 1..ret'.n : ret'.keys[1][i] = reader.buffer[off + i]
              /\ reader'.offset = reader.offset
              /\ \A m \in 0..BufCap :
                     /\ readerRead(reader', m).p = readerRead(reader, m).p
                     /\ readerRead(reader', m).eof = readerRead(reader, m).eof]_vars

\* a ReadAt that copied bytes, on a reader whose content was not yet read
\* to the end before the call
C34_ReadAtMidway ==
    /\ ret.op = "ReadAt"
    /\ ret.err = NoError
    /\ ret.n >= 1
    /\ reader.offset - ret.n < reader.length


====
